---------------------------- MODULE Spec2Model ----------------------------
(***************************************************************************)
(* Dependency graph and propagation engine:                                *)
(*   demo_stand/gitlab-scripts/src/dependency_manager.py  (DependencyManager)*)
(*   demo_stand/webhook-app/src/main.py                   (WebhookQueue)    *)
(* Python strings are modelled as sequences of one-character strings, so   *)
(* that startswith, endswith, `in`, strip, split and re.match are computed *)
(* character by character as the interpreter computes them.                *)
(***************************************************************************)
EXTENDS Naturals, Sequences, FiniteSets, TLC

\* ------------------------------------------------------------------ bounds
\* longest dependency list drawn as an input of the manifest codec
MaxLen == 2
\* webhook notifications received in one behaviour
MaxEvents == 3

\* ----------------------------------------------------------- python values
\* Python's None: a one-element sequence holding a word, equal to no string
None == <<"None">>

\* get_pyproject_toml returned None: no dependency list at all
NoManifest == <<None>>

\* str(x) / f"{x}" of an optional string
Str(x) == IF x = None THEN <<"N", "o", "n", "e">> ELSE x

\* s.startswith(p)
StartsWith(s, p) == Len(p) <= Len(s) /\ SubSeq(s, 1, Len(p)) = p

\* s.endswith(p)
EndsWith(s, p) == Len(p) <= Len(s) /\ SubSeq(s, Len(s) - Len(p) + 1, Len(s)) = p

\* p in s   (substring test)
Contains(s, p) == \E i \in 0..Len(s) : i + Len(p) <= Len(s) /\ SubSeq(s, i + 1, i + Len(p)) = p

Whitespace == {" "}

RECURSIVE LStrip(_)
LStrip(s) == IF s # <<>> /\ Head(s) \in Whitespace THEN LStrip(Tail(s)) ELSE s

RECURSIVE RStrip(_)
RStrip(s) == IF s # <<>> /\ s[Len(s)] \in Whitespace THEN RStrip(SubSeq(s, 1, Len(s) - 1)) ELSE s

\* s.strip()
Strip(s) == RStrip(LStrip(s))

\* ------------------------------------------------------------ the literals
\* names, urls and versions the inputs are built from
foo == <<"f", "o", "o">>
foobar == <<"f", "o", "o", "b", "a", "r">>
app == <<"a", "p", "p">>
requests == <<"r", "e", "q", "u", "e", "s", "t", "s">>

url_foo == <<"h", "/", "f", "o", "o">>
url_foobar == <<"h", "/", "f", "o", "o", "b", "a", "r">>
url_app == <<"h", "/", "a", "p", "p">>

V1 == <<"1", ".", "2", ".", "3">>
V2 == <<"2", ".", "0", ".", "0">>

GitPlus == <<" ", "@", " ", "g", "i", "t", "+">>
AtMain == <<"@", "m", "a", "i", "n">>
GE == <<">", "=">>
EQ == <<"=", "=">>

\* the three encodings of a dependency entry
VcsForm(name, url) == name \o GitPlus \o url \o AtMain
MinForm(name, version) == name \o GE \o version
PinForm(name, version) == name \o EQ \o version

\* --------------------------------------------------------- manifest codec
\* one iteration of the loop of _update_toml_dependencies: the entry appended
\* to updated_deps_array for the entry dep.
\* (variant: the branch for the pinned form is missing)
UpdatedDepPinnedKept(dep, package_name, package_version) ==
    LET dep_str == Strip(Str(dep)) IN
    IF StartsWith(dep_str, package_name \o GitPlus) THEN MinForm(package_name, package_version)
    ELSE IF StartsWith(dep_str, package_name \o GE) THEN MinForm(package_name, package_version)
    ELSE dep

\* (variant: a minimum-version entry gets the new bound appended)
UpdatedDepAppending(dep, package_name, package_version) ==
    LET dep_str == Strip(Str(dep)) IN
    IF StartsWith(dep_str, package_name \o GitPlus) THEN MinForm(package_name, package_version)
    ELSE IF StartsWith(dep_str, package_name \o GE) THEN dep_str \o <<",">> \o GE \o package_version
    ELSE IF StartsWith(dep_str, package_name \o EQ) THEN MinForm(package_name, package_version)
    ELSE dep

\* (the loop body of lines 177-197)
UpdatedDep(dep, package_name, package_version) ==
    LET dep_str == Strip(Str(dep)) IN
    IF StartsWith(dep_str, package_name \o GitPlus) THEN MinForm(package_name, package_version)
    ELSE IF StartsWith(dep_str, package_name \o GE) THEN MinForm(package_name, package_version)
    ELSE IF StartsWith(dep_str, package_name \o EQ) THEN MinForm(package_name, package_version)
    ELSE dep

\* _update_toml_dependencies on the dependency array of the parsed manifest
\* (tomlkit keeps everything outside doc["project"]["dependencies"])
_update_toml_dependencies(deps_array, package_name, package_version) ==
    [i \in 1..Len(deps_array) |-> UpdatedDep(deps_array[i], package_name, package_version)]


\* _get_depended_projects_id: for id, project in self._projects.items(): for
\* dep in project.dependencies: if project_name in dep: append(id).
\* ids is the iteration order of the dict (insertion order: the order of the
\* group listing); the id is appended once per entry that contains the name.
RECURSIVE MatchesIn(_, _, _)
MatchesIn(id, dependencies, project_name) ==
    IF dependencies = <<>> THEN <<>>
    ELSE (IF Contains(Head(dependencies), project_name) THEN <<id>> ELSE <<>>)
         \o MatchesIn(id, Tail(dependencies), project_name)

RECURSIVE DependedFrom(_, _, _)
DependedFrom(ids, projects, project_name) ==
    IF ids = <<>> THEN <<>>
    ELSE MatchesIn(Head(ids), projects[Head(ids)].dependencies, project_name)
         \o DependedFrom(Tail(ids), projects, project_name)

\* the keys of a dict in iteration order (ascending id: the listing's order)
RECURSIVE Keys(_)
Keys(S) ==
    IF S = {} THEN <<>>
    ELSE LET m == CHOOSE x \in S : \A y \in S : x <= y IN <<m>> \o Keys(S \ {m})

_get_depended_projects_id(projects, project_name) ==
    DependedFrom(Keys(DOMAIN projects), projects, project_name)

\* ------------------------------------------------- webhook: name and version
Digits == {"0", "1", "2", "3", "4", "5", "6", "7", "8", "9"}
Letters == {"a", "b", "c", "d", "e", "f", "g", "h", "i", "j", "k", "l", "m",
            "n", "o", "p", "q", "r", "s", "t", "u", "v", "w", "x", "y", "z"}
\* the class [\w_]
WordChars == Letters \cup Digits \cup {"_"}

\* filename.split("/")[-1]
RECURSIVE Basename(_)
Basename(filename) ==
    IF \E i \in 1..Len(filename) : filename[i] = "/"
    THEN Basename(Tail(filename))
    ELSE filename

AllIn(s, from, to, class) == \A i \in from..to : s[i] \in class

\* the lengths k >= 1 for which s[from .. from+k-1] lies in class and is
\* followed by the character next
Runs(s, from, class, next) ==
    {k \in 1..Len(s) : /\ from + k <= Len(s)
                       /\ AllIn(s, from, from + k - 1, class)
                       /\ s[from + k] = next}

\* the lengths k >= 1 for which s[from .. from+k-1] lies in class
FinalRuns(s, from, class) ==
    {k \in 1..Len(s) : from + k - 1 <= Len(s) /\ AllIn(s, from, from + k - 1, class)}

\* the ways ([\w_]+)-(\d+)\.(\d+)\.(\d+) matches a prefix of s (re.match anchors
\* at the start only): <<n, a, b, c>> are the lengths of the four repetitions
Matches(s) ==
    UNION {UNION {UNION {{<<n, a, b, c>> : c \in FinalRuns(s, n + 4 + a + b, Digits)}
                         : b \in Runs(s, n + 3 + a, Digits, ".")}
                  : a \in Runs(s, n + 2, Digits, ".")}
           : n \in Runs(s, 1, WordChars, "-")}

\* the match the backtracking engine reports: every repetition is greedy, so
\* the first success is the lexicographically largest <<n, a, b, c>>
Before(x, y) ==
    \/ x[1] > y[1]
    \/ x[1] = y[1] /\ x[2] > y[2]
    \/ x[1] = y[1] /\ x[2] = y[2] /\ x[3] > y[3]
    \/ x[1] = y[1] /\ x[2] = y[2] /\ x[3] = y[3] /\ x[4] >= y[4]

ReMatch(s) == CHOOSE m \in Matches(s) : \A o \in Matches(s) : Before(m, o)

\* s.replace("_", "-")
ReplaceUnderscore(s) == [i \in 1..Len(s) |-> IF s[i] = "_" THEN "-" ELSE s[i]]

\* (variant: the underscores of the name are kept)
get_name_keeping_underscores(filename) ==
    LET basename == Basename(filename) IN
    IF Matches(basename) = {} THEN None
    ELSE SubSeq(basename, 1, ReMatch(basename)[1])

get_name(filename) ==
    LET basename == Basename(filename) IN
    IF Matches(basename) = {} THEN None
    ELSE ReplaceUnderscore(SubSeq(basename, 1, ReMatch(basename)[1]))

get_version(filename) ==
    LET basename == Basename(filename) IN
    IF Matches(basename) = {} THEN None
    ELSE LET m == ReMatch(basename) IN
         SubSeq(basename, m[1] + 2, m[1] + 3 + m[2] + m[3] + m[4])


\* ---------------------------------------------------------------- the state
VARIABLES
    remote,            \* the hosting service's group: id -> [name, url, toml]
    _projects,         \* DependencyManager._projects: id -> ProjectInfo
    _queue,            \* WebhookQueue._queue: the items of the asyncio.Queue
    unfinished_tasks,  \* the queue's count of items put and not yet task_done
    _processing_lock,  \* WebhookQueue._processing_lock.locked()
    consumer,          \* where process_queue is suspended, and its package_info
    runs,              \* the executions of update_all_direct_dependencies
    calls,             \* the enqueues and workflow steps so far, in order
    clock,             \* the notifications received so far
    payload,           \* the notification handled last
    response,          \* what handle_nexus_webhook returned for it
    codec,             \* the manifest codec applied to one drawn input
    graph,             \* build_module_map applied to one drawn map
    setup,             \* where the setup script is, and what it was given
    parsed,            \* get_name / get_version applied to one drawn filename
    naming             \* the branch and tag names of two drawn events

vars == <<remote, _projects, _queue, unfinished_tasks, _processing_lock,
          consumer, runs, calls, clock, payload, response, codec, graph, setup, parsed, naming>>

system == <<remote, _projects, _queue, unfinished_tasks, _processing_lock,
            consumer, runs, calls, clock, payload, response>>

\* -------------------------------------------------------- the hosting service
ProjectIds == {1, 2, 3}

\* the group when the DependencyManager is constructed: foobar depends on foo
RemoteInit ==
    (1 :> [name |-> foo, url |-> url_foo, toml |-> <<>>])
    @@ (2 :> [name |-> foobar, url |-> url_foobar, toml |-> <<VcsForm(foo, url_foo)>>])

\* a repository forked into the group, its manifest not yet written
NewProject(id) == [name |-> app, url |-> url_app, toml |-> NoManifest]

\* the dependency lists a first push may leave in a manifest
PushedManifests == {<<VcsForm(foo, url_foo)>>}

\* _parse_dependencies_from_response: name -> dependency list; a repository
\* without pyproject.toml (get_pyproject_toml returned None) gets []. The dict
\* is keyed by name, so the last listed project of a name decides.
_parse_dependencies_from_response(group, name) ==
    LET last == CHOOSE id \in DOMAIN group :
                    /\ group[id].name = name
                    /\ \A o \in DOMAIN group : group[o].name = name => o <= id
    IN  IF group[last].toml = NoManifest THEN <<>> ELSE group[last].toml

\* (variant: a repository without manifest is left out of the map)
_load_group_projects_skipping(group) ==
    LET with_manifest == {id \in DOMAIN group : group[id].toml # NoManifest} IN
    [id \in with_manifest |->
        [name |-> group[id].name,
         url |-> group[id].url,
         dependencies |-> group[id].toml]]

\* _load_group_projects when the listing succeeds
_load_group_projects(group) ==
    [id \in DOMAIN group |->
        [name |-> group[id].name,
         url |-> group[id].url,
         dependencies |-> _parse_dependencies_from_response(group, group[id].name)]]

\* ------------------------------------------------------------- the webhook
Whl == <<".", "w", "h", "l">>
TarGz == <<".", "t", "a", "r", ".", "g", "z">>
my_pkg == <<"m", "y", "_", "p", "k", "g">>
my_dash_pkg == <<"m", "y", "-", "p", "k", "g">>

AssetNames ==
    {foo \o <<"-">> \o V1 \o Whl,
     <<"p", "/">> \o foo \o <<"-">> \o V2 \o Whl,
     my_pkg \o <<"-">> \o V1 \o Whl,
     my_dash_pkg \o <<"-">> \o V1 \o Whl,
     foo \o <<"-">> \o V1 \o TarGz}

\* what is deleted: a wheel that would be accepted had it been created
DeletedAssetNames == {foo \o <<"-">> \o V1 \o Whl}

\* NexusWebhook: the fields the handler reads; the n-th notification is
\* stamped n
Payloads(n) ==
    [action : {"CREATED"}, asset_name : AssetNames, repositoryName : {"pypi"}, timestamp : {n}]
    \cup [action : {"DELETED"}, asset_name : DeletedAssetNames, repositoryName : {"pypi"}, timestamp : {n}]

\* the two early returns of handle_nexus_webhook
\* (variant: the test of the action is missing)
AcceptedAnyAction(p) == EndsWith(p.asset_name, Whl)

Accepted(p) == p.action = "CREATED" /\ EndsWith(p.asset_name, Whl)

\* the record handle_nexus_webhook builds
PackageInfo(p) ==
    [package_name |-> get_name(p.asset_name),
     version |-> get_version(p.asset_name),
     repository |-> p.repositoryName,
     timestamp |-> p.timestamp]

\* the consumer holds no item
NoPackageInfo == [package_name |-> None, version |-> None, repository |-> "", timestamp |-> 0]

\* add_to_queue: Queue() has maxsize 0, put appends and counts the item
\* (variant: Queue(maxsize=1), put waits while the queue is full)
add_to_queue_maxsize_1(package_info) ==
    /\ Len(_queue) < 1
    /\ _queue' = Append(_queue, package_info)
    /\ unfinished_tasks' = unfinished_tasks + 1
    /\ calls' = Append(calls, [timestamp |-> package_info.timestamp, step |-> "add_to_queue"])

add_to_queue(package_info) ==
    /\ _queue' = Append(_queue, package_info)
    /\ unfinished_tasks' = unfinished_tasks + 1
    /\ calls' = Append(calls, [timestamp |-> package_info.timestamp, step |-> "add_to_queue"])

handle_nexus_webhook(p) ==
    /\ clock < MaxEvents
    /\ p.timestamp = clock + 1
    /\ clock' = clock + 1
    /\ payload' = p
    /\ IF ~Accepted(p)
       THEN /\ response' = [status |-> "ignored", package |-> None, queue_size |-> 0]
            /\ UNCHANGED <<_queue, unfinished_tasks, calls>>
       ELSE /\ add_to_queue(PackageInfo(p))
            /\ response' = [status |-> "queued",
                            package |-> get_name(p.asset_name),
                            queue_size |-> Len(_queue')]
    /\ UNCHANGED <<remote, _projects, _processing_lock, consumer, runs, codec, graph, setup, parsed, naming>>

\* ------------------------------------------------------------- the consumer
\* self._queue.get(): the item taken and the items left
\* (variant: a LifoQueue)
QueueGetLast(q) == [item |-> q[Len(q)], rest |-> SubSeq(q, 1, Len(q) - 1)]

QueueGet(q) == [item |-> Head(q), rest |-> Tail(q)]

Finished(run) == run.pc \in {"returned", "raised"}

\* process_queue from its await on the queue to its await on the executor:
\* take an item, enter the lock, hand the workflow to the executor
process_queue_get ==
    /\ consumer.pc = "get"
    /\ _queue # <<>>
    /\ ~_processing_lock
    /\ LET got == QueueGet(_queue) IN
        /\ _queue' = got.rest
        /\ _processing_lock' = TRUE
        /\ runs' = Append(runs, [package_info |-> got.item, pc |-> "submitted", exc |-> ""])
        /\ consumer' = [pc |-> "executor", package_info |-> got.item]
    /\ UNCHANGED <<remote, _projects, unfinished_tasks, calls, clock, payload, response, codec, graph, setup, parsed, naming>>

\* the executor's future is done: the workflow returned or raised
\* (variant: the future is not awaited)
ExecutorDoneEarly == TRUE

ExecutorDone == Finished(runs[Len(runs)])

\* (variant: no except clause around the await: an error of the workflow leaves
\* the lock and ends the consumer task before task_done)
process_queue_resume_without_except ==
    /\ consumer.pc = "executor"
    /\ ExecutorDone
    /\ _processing_lock' = FALSE
    /\ IF runs[Len(runs)].pc = "raised"
       THEN /\ consumer' = [pc |-> "ended", package_info |-> NoPackageInfo]
            /\ UNCHANGED unfinished_tasks
       ELSE /\ consumer' = [pc |-> "get", package_info |-> NoPackageInfo]
            /\ unfinished_tasks' = unfinished_tasks - 1
    /\ UNCHANGED <<remote, _projects, _queue, runs, calls, clock, payload, response, codec, graph, setup, parsed, naming>>

\* process_queue from the end of the workflow to its next await on the queue:
\* log the outcome (except Exception), leave the lock, task_done
process_queue_resume ==
    /\ consumer.pc = "executor"
    /\ ExecutorDone
    /\ _processing_lock' = FALSE
    /\ unfinished_tasks' = unfinished_tasks - 1
    /\ consumer' = [pc |-> "get", package_info |-> NoPackageInfo]
    /\ UNCHANGED <<remote, _projects, _queue, runs, calls, clock, payload, response, codec, graph, setup, parsed, naming>>

\* ------------------------------------------------------------- the workflow
\* the attributes __init__ sets on a DependencyManager
DependencyManagerAttrs == {"api", "_projects", "_group_id"}

Step(r, name) == [timestamp |-> runs[r].package_info.timestamp, step |-> name]

\* the executor thread enters update_all_direct_dependencies
update_all_direct_dependencies(r) ==
    /\ runs[r].pc = "submitted"
    /\ runs' = [runs EXCEPT ![r].pc = "refresh"]
    /\ calls' = Append(calls, Step(r, "update_all_direct_dependencies"))
    /\ UNCHANGED <<remote, _projects, _queue, unfinished_tasks, _processing_lock,
                   consumer, clock, payload, response, codec, graph, setup, parsed, naming>>

\* line 142: self._refresh_projects_data(). Its first statement reads
\* self.group_id outside the try; an attribute that was never set raises
\* AttributeError, which leaves update_all_direct_dependencies.
_refresh_projects_data(r) ==
    /\ runs[r].pc = "refresh"
    /\ calls' = Append(calls, Step(r, "_refresh_projects_data"))
    /\ IF "group_id" \notin DependencyManagerAttrs
       THEN /\ runs' = [runs EXCEPT ![r].pc = "raised", ![r].exc = "AttributeError"]
            /\ UNCHANGED _projects
       ELSE /\ runs' = [runs EXCEPT ![r].pc = "resolve"]
            /\ \E listed \in BOOLEAN :
                 _projects' = IF listed THEN _load_group_projects(remote) ELSE _projects
    /\ UNCHANGED <<remote, _queue, unfinished_tasks, _processing_lock,
                   consumer, clock, payload, response, codec, graph, setup, parsed, naming>>

\* ----------------------------------------------- the group changes meanwhile
\* a repository is forked into the group
CreateProject(id) ==
    /\ id \notin DOMAIN remote
    /\ remote' = remote @@ (id :> NewProject(id))
    /\ UNCHANGED <<_projects, _queue, unfinished_tasks, _processing_lock, consumer, runs,
                   calls, clock, payload, response, codec, graph, setup, parsed, naming>>

\* the first manifest of a repository is pushed to its main branch
PushManifest(id, deps) ==
    /\ id \in DOMAIN remote
    /\ remote[id].toml = NoManifest
    /\ remote' = [remote EXCEPT ![id].toml = deps]
    /\ UNCHANGED <<_projects, _queue, unfinished_tasks, _processing_lock, consumer, runs,
                   calls, clock, payload, response, codec, graph, setup, parsed, naming>>

\* ------------------------------------------------------- the specification
CodecOff ==
    [pc |-> "off", deps |-> <<>>, name |-> <<>>, version |-> <<>>,
     once |-> <<>>, twice |-> <<>>, depended |-> <<>>]

NoPayload == [action |-> "", asset_name |-> <<>>, repositoryName |-> "", timestamp |-> 0]

\* after WebhookQueue.__init__: the registry loaded, the queue empty
SystemInit ==
    /\ remote = RemoteInit
    /\ _projects = _load_group_projects(RemoteInit)
    /\ _queue = <<>>
    /\ unfinished_tasks = 0
    /\ _processing_lock = FALSE
    /\ consumer = [pc |-> "get", package_info |-> NoPackageInfo]
    /\ runs = <<>>
    /\ calls = <<>>
    /\ clock = 0
    /\ payload = NoPayload
    /\ response = [status |-> "", package |-> None, queue_size |-> 0]

GraphOff == [pc |-> "off", projects |-> <<>>, classes |-> <<>>, edges |-> <<>>]

SetupOff ==
    [pc |-> "off", tomls |-> <<>>, project_id |-> 0, dependencies |-> <<>>,
     before |-> <<>>, outcome |-> "", written |-> <<>>,
     mapped |-> FALSE, classes |-> <<>>, edges |-> <<>>]

ParsedOff ==
    [pc |-> "off", dir |-> <<>>, stem |-> <<>>, major |-> <<>>, minor |-> <<>>,
     patch |-> <<>>, suffix |-> <<>>, filename |-> <<>>, name |-> None, version |-> None]

NoEvent == [name |-> <<>>, version |-> <<>>]

NamingOff ==
    [pc |-> "off", deps |-> <<>>, first |-> NoEvent, second |-> NoEvent,
     branches |-> <<>>, tags |-> <<>>]

Init ==
    /\ SystemInit /\ codec = CodecOff /\ graph = GraphOff /\ setup = SetupOff
    /\ parsed = ParsedOff /\ naming = NamingOff

Next ==
    \/ \E p \in Payloads(clock + 1) : handle_nexus_webhook(p)
    \/ process_queue_get
    \/ process_queue_resume
    \/ \E r \in DOMAIN runs : update_all_direct_dependencies(r)
    \/ \E r \in DOMAIN runs : _refresh_projects_data(r)
    \/ \E id \in ProjectIds : CreateProject(id)
    \/ \E id \in ProjectIds, deps \in PushedManifests : PushManifest(id, deps)

Spec == Init /\ [][Next]_vars


\* ------------------------------------------- the manifest codec on its own
\* the entries a manifest's dependency list is drawn from: the three encodings
\* of a tracked name, an entry padded with whitespace, a name that has the
\* tracked name as a prefix, and third-party entries
Entries ==
    {VcsForm(foo, url_foo), MinForm(foo, V1), PinForm(foo, V1),
     <<" ">> \o MinForm(foo, V1),
     VcsForm(foobar, url_foobar), MinForm(foobar, V1),
     requests, MinForm(requests, V2)}

DependencyLists == UNION {[1..k -> Entries] : k \in 0..MaxLen}

PackageNames == {foo, foobar}
Versions == {V1, V2}

\* the registry loaded from a group whose third repository declares deps
RegistryWith(deps) ==
    _load_group_projects(RemoteInit @@ (3 :> [name |-> app, url |-> url_app, toml |-> deps]))

CodecInit ==
    /\ SystemInit
    /\ codec \in [pc : {"input"}, deps : DependencyLists, name : PackageNames,
                  version : Versions, once : {<<>>}, twice : {<<>>}, depended : {<<>>}]
    /\ graph = GraphOff
    /\ setup = SetupOff
    /\ parsed = ParsedOff
    /\ naming = NamingOff

\* the version bump of steps 3b-3d, applied to the drawn list
Bump ==
    /\ codec.pc = "input"
    /\ codec' = [codec EXCEPT !.pc = "once",
                              !.once = _update_toml_dependencies(codec.deps, codec.name, codec.version)]
    /\ UNCHANGED <<system, graph, setup, parsed, naming>>

\* the same bump applied to its own result
BumpAgain ==
    /\ codec.pc = "once"
    /\ codec' = [codec EXCEPT !.pc = "twice",
                              !.twice = _update_toml_dependencies(codec.once, codec.name, codec.version)]
    /\ UNCHANGED <<system, graph, setup, parsed, naming>>

\* dependents resolution on the registry holding the drawn list
Resolve ==
    /\ codec.pc = "input"
    /\ codec' = [codec EXCEPT !.pc = "resolved",
                              !.depended = _get_depended_projects_id(RegistryWith(codec.deps), codec.name)]
    /\ UNCHANGED <<system, graph, setup, parsed, naming>>

CodecNext == Bump \/ BumpAgain \/ Resolve

SpecCodec == CodecInit /\ [][CodecNext]_vars


\* ================================================================ the claims
Range(f) == {f[i] : i \in DOMAIN f}

\* the runs of the workflow that have started and not ended
Active == {r \in DOMAIN runs : ~Finished(runs[r])}

\* the positions of the log that are workflow steps
WorkflowSteps == {i \in DOMAIN calls : calls[i].step # "add_to_queue"}
Enqueues == {i \in DOMAIN calls : calls[i].step = "add_to_queue"}

\* C1: error isolation: whatever step fails, update_all_direct_dependencies
\* goes on to the remaining dependents and returns normally; no run of the
\* workflow ends in failure.
C1_WorkflowNeverEndsInFailure ==
    \A r \in DOMAIN runs : runs[r].pc # "raised"

\* C2: mutual exclusion: at most one run of the workflow is executing, and
\* the processing lock is held from before its first step until after its
\* last step.
C2_MutualExclusion ==
    /\ Cardinality(Active) <= 1
    /\ Active # {} => _processing_lock
    /\ consumer.pc = "executor" => _processing_lock

\* C2 witness: a workflow is between two of its steps under the lock while
\* another event, enqueued meanwhile, waits in the queue
C2_Witness ==
    /\ _processing_lock
    /\ \E r \in DOMAIN runs : runs[r].pc = "refresh"
    /\ Len(_queue) >= 1
    /\ Len(runs) >= 2

\* C3: FIFO without interleaving: when e1 is enqueued before e2, every
\* workflow step for e1 (a failed workflow's too) precedes the first workflow
\* step for e2.
C3_FifoNoInterleaving ==
    \A a, b \in Enqueues : \A s, t \in WorkflowSteps :
        /\ a < b
        /\ calls[s].timestamp = calls[a].timestamp
        /\ calls[t].timestamp = calls[b].timestamp
        => s < t

\* C3 witness: e2 was enqueued while the workflow of e1 was between its
\* steps, the workflow of e1 failed, and the workflow of e2 has run
C3_Witness ==
    \E s1, b, s2, t \in DOMAIN calls :
        /\ s1 < b /\ b < s2 /\ s2 < t
        /\ calls[b].step = "add_to_queue"
        /\ calls[s1].step = "update_all_direct_dependencies"
        /\ calls[s2].step = "_refresh_projects_data"
        /\ calls[s1].timestamp = calls[s2].timestamp
        /\ calls[t].step = "_refresh_projects_data"
        /\ calls[t].timestamp = calls[b].timestamp
        /\ runs[1].pc = "raised"

\* C4: every workflow run starts by refreshing the registry: the step that
\* leaves _refresh_projects_data leaves _projects equal to a fresh load of the
\* group, so a repository added after construction is seen.
C4_RefreshReplacesRegistry ==
    [][\A r \in DOMAIN runs :
          (runs[r].pc = "refresh" /\ runs'[r].pc # "refresh")
          => _projects' = _load_group_projects(remote)]_vars

\* the matching rule of the version bump as the spec states it: the entry
\* starts with `p @ git+`, `p>=` or `p==`
StartsWithEncoding(entry, p) ==
    \/ StartsWith(entry, p \o GitPlus)
    \/ StartsWith(entry, p \o GE)
    \/ StartsWith(entry, p \o EQ)

\* C5: dependents resolution uses the matching rule of the version bump: a
\* project is returned iff one of its entries (read as the version bump reads
\* it, without surrounding whitespace) starts with `p @ git+`, `p>=` or
\* `p==`; an entry for `foobar` does not make a dependent of `foo`.
C5_DependentsMatchVersionBumpRule ==
    codec.pc = "resolved" =>
        \A id \in DOMAIN RegistryWith(codec.deps) :
            id \in Range(codec.depended)
            <=> \E i \in DOMAIN RegistryWith(codec.deps)[id].dependencies :
                    StartsWithEncoding(Strip(RegistryWith(codec.deps)[id].dependencies[i]),
                                       codec.name)

\* C6 as stated: the result has the length of L, holds `p>=v` where L[i]
\* starts with one of the three encodings of p, and L[i] elsewhere.
C6_VersionBumpResultAsStated ==
    codec.pc = "once" =>
        /\ Len(codec.once) = Len(codec.deps)
        /\ \A i \in DOMAIN codec.deps :
              codec.once[i] = IF StartsWithEncoding(codec.deps[i], codec.name)
                              THEN MinForm(codec.name, codec.version)
                              ELSE codec.deps[i]

\* C6 (amended): the result has the length of L, holds `p>=v` where L[i]
\* with its leading and trailing whitespace removed starts with one of the
\* three encodings of p (the pinned form is normalized to >=), and L[i]
\* unchanged elsewhere.
C6_VersionBumpResult ==
    codec.pc = "once" =>
        /\ Len(codec.once) = Len(codec.deps)
        /\ \A i \in DOMAIN codec.deps :
              codec.once[i] = IF StartsWithEncoding(Strip(codec.deps[i]), codec.name)
                              THEN MinForm(codec.name, codec.version)
                              ELSE codec.deps[i]

\* C6 witness: a pinned entry of the package was rewritten to >= beside an
\* entry of another package that was kept
C6_Witness ==
    /\ codec.pc = "once"
    /\ codec.name = foo
    /\ codec.version = V2
    /\ codec.deps = <<PinForm(foo, V1), MinForm(foobar, V1)>>
    /\ codec.once = <<MinForm(foo, V2), MinForm(foobar, V1)>>

\* C7: the version bump is idempotent: applied to its own result with the
\* same package and version it changes nothing.
C7_VersionBumpIdempotent ==
    codec.pc = "twice" => codec.twice = codec.once

\* C7 witness: the first application rewrote an entry, the second one ran
C7_Witness ==
    /\ codec.pc = "twice"
    /\ codec.once # codec.deps
    /\ \E i \in DOMAIN codec.deps : codec.deps[i] = MinForm(codec.name, V1) /\ codec.version = V2

\* C8: an accepted notification whose filename does not match
\* <name>-<major>.<minor>.<patch> is dropped: no event without a package name
\* or version enters the queue or reaches the workflow.
C8_NoAbsentNameOrVersionEnqueued ==
    /\ \A i \in DOMAIN _queue : _queue[i].package_name # None /\ _queue[i].version # None
    /\ \A r \in DOMAIN runs : /\ runs[r].package_info.package_name # None
                              /\ runs[r].package_info.version # None

\* C9: the acceptance filter: the handler enqueues only when action is
\* CREATED and the asset name ends with .whl; every other notification gets
\* the status ignored and leaves the queue unchanged.
C9_AcceptanceFilter ==
    [][clock' # clock =>
          LET passes == payload'.action = "CREATED" /\ EndsWith(payload'.asset_name, Whl) IN
          /\ _queue' # _queue => passes
          /\ ~passes => response'.status = "ignored" /\ _queue' = _queue
          /\ passes => response'.status = "queued" /\ Len(_queue') = Len(_queue) + 1]_vars

\* C9 witness: the deletion of a wheel was ignored with events in the queue
C9_Witness ==
    /\ payload.action = "DELETED"
    /\ EndsWith(payload.asset_name, Whl)
    /\ response.status = "ignored"
    /\ _queue # <<>>

\* the records add_to_queue may be handed for the notification that arrives
\* next: a name and a version, either of them possibly absent
NextEvents ==
    [package_name : {foo, None}, version : {V1, V2, None},
     repository : {"pypi"}, timestamp : {clock + 1}]

\* C10: enqueue never waits for a workflow: in every reachable state, also
\* while the lock is held and a workflow is running and whatever the queue
\* holds, add_to_queue is enabled for the next event and completes by
\* appending it to the queue.
C10_EnqueueNeverWaits ==
    \A e \in NextEvents :
        ENABLED (add_to_queue(e) /\ _queue' = Append(_queue, e))

\* C10 witness: an event was enqueued between two steps of a running workflow,
\* under the held lock, and waits in the queue
C10_Witness ==
    /\ _processing_lock
    /\ Len(_queue) >= 2
    /\ \E r \in DOMAIN runs : runs[r].pc = "refresh"
    /\ calls # <<>>
    /\ calls[Len(calls)].step = "add_to_queue"
    /\ \E s \in DOMAIN calls : /\ calls[s].step = "update_all_direct_dependencies"
                               /\ \A t \in DOMAIN calls :
                                     calls[t].timestamp = calls[s].timestamp
                                     => calls[t].step # "_refresh_projects_data"

\* ------------------------------------------------------- the graph classifier
\* the dict build_module_map classifies: project name -> dependency list, the
\* last project of a name deciding its list
dependencies_by_name(projects) ==
    [n \in {projects[id].name : id \in DOMAIN projects} |->
        LET last == CHOOSE id \in DOMAIN projects :
                        /\ projects[id].name = n
                        /\ \A o \in DOMAIN projects : projects[o].name = n => o <= id
        IN  projects[last].dependencies]

\* the keys of that dict in insertion order: the listing order, a name at its
\* first occurrence
RECURSIVE DictKeys(_, _)
DictKeys(projects, ids) ==
    IF ids = {} THEN <<>>
    ELSE LET id == CHOOSE i \in ids : \A o \in ids : i <= o
             rest == DictKeys(projects, ids \ {id})
         IN  <<projects[id].name>>
             \o SelectSeq(rest, LAMBDA n : n # projects[id].name)

root_modules(dependencies) == {key \in DOMAIN dependencies : dependencies[key] = <<>>}

all_deps(dependencies) ==
    UNION {{dependencies[key][i] : i \in DOMAIN dependencies[key]} : key \in DOMAIN dependencies}

leaf_modules(dependencies) == DOMAIN dependencies \ all_deps(dependencies)

\* the class line of one module
ModuleClass(dependencies, module) ==
    IF module \in root_modules(dependencies) THEN "root"
    ELSE IF module \in leaf_modules(dependencies) THEN "leaf"
    ELSE "middle"

\* the edge lines, one per entry of each list, in dict order
RECURSIVE EdgeLines(_, _)
EdgeLines(dependencies, keys) ==
    IF keys = <<>> THEN <<>>
    ELSE LET module == Head(keys) IN
         [i \in DOMAIN dependencies[module] |-> <<dependencies[module][i], module>>]
         \o EdgeLines(dependencies, Tail(keys))

\* build_module_map, its output taken before it is formatted as Mermaid text
build_module_map(projects) ==
    LET dependencies == dependencies_by_name(projects) IN
    [classes |-> [module \in DOMAIN dependencies |-> ModuleClass(dependencies, module)],
     edges |-> EdgeLines(dependencies, DictKeys(projects, DOMAIN projects))]

\* --------------------------------------- the classifier on drawn name graphs
ModuleNames == {foo, foobar, app}

NameLists == UNION {[1..k -> ModuleNames] : k \in 0..MaxLen}

\* three projects, each with a drawn list of dependency names
NameGraphs ==
    {(1 :> [name |-> foo, url |-> url_foo, dependencies |-> a])
     @@ (2 :> [name |-> foobar, url |-> url_foobar, dependencies |-> b])
     @@ (3 :> [name |-> app, url |-> url_app, dependencies |-> c]) :
        a \in NameLists, b \in NameLists, c \in NameLists}

GraphInit ==
    /\ SystemInit
    /\ codec = CodecOff
    /\ setup = SetupOff
    /\ parsed = ParsedOff
    /\ naming = NamingOff
    /\ graph \in [pc : {"input"}, projects : NameGraphs, classes : {<<>>}, edges : {<<>>}]

Classify ==
    /\ graph.pc = "input"
    /\ LET map == build_module_map(graph.projects) IN
        graph' = [graph EXCEPT !.pc = "classified", !.classes = map.classes,
                               !.edges = map.edges]
    /\ UNCHANGED <<system, codec, setup, parsed, naming>>

GraphNext == Classify

SpecGraph == GraphInit /\ [][GraphNext]_vars

\* how often x occurs in the sequence s
Count(s, x) == Cardinality({i \in DOMAIN s : s[i] = x})

\* C11: a project with no dependencies is a root; a project with dependencies
\* is a leaf when no other project's list names it, also when it names itself;
\* it is middle otherwise; and there is exactly one (dependency, dependent)
\* edge per dependency reference.
C11_ClassificationRule ==
    graph.pc = "classified" =>
        LET dependencies == dependencies_by_name(graph.projects) IN
        /\ \A n \in DOMAIN dependencies :
            graph.classes[n] =
                IF dependencies[n] = <<>> THEN "root"
                ELSE IF \A m \in DOMAIN dependencies \ {n} :
                            Count(dependencies[m], n) = 0
                     THEN "leaf"
                     ELSE "middle"
        /\ \A d \in ModuleNames, m \in DOMAIN dependencies :
            Count(graph.edges, <<d, m>>) = Count(dependencies[m], d)

\* ------------------------------------------------------- the setup script
\* write_dependencies_in_toml: a DependencyManager is constructed for the
\* group, then init_project_dependencies is called with a module's id and the
\* plain dependency names of the config.

\* the manifests as the load's get_pyproject_toml calls return them: None for
\* a repository without manifest and for a request that failed
Fetched(group, failed) ==
    [id \in DOMAIN group |->
        [group[id] EXCEPT !.toml = IF id \in failed THEN NoManifest ELSE @]]

\* DependencyManager.__init__ with a group id: the registry is loaded; a
\* failure of the group listing is logged and raised again
DependencyManager_init ==
    /\ setup.pc = "start"
    /\ \/ \E failed \in SUBSET DOMAIN remote :
            /\ _projects' = _load_group_projects(Fetched(remote, failed))
            /\ setup' = [setup EXCEPT !.pc = "constructed",
                                      !.tomls = [id \in DOMAIN remote |->
                                                    Fetched(remote, failed)[id].toml]]
       \/ /\ setup' = [setup EXCEPT !.pc = "raised"]
          /\ UNCHANGED _projects
    /\ UNCHANGED <<remote, _queue, unfinished_tasks, _processing_lock, consumer, runs,
                   calls, clock, payload, response, codec, graph, parsed, naming>>

\* _find_dependency_url: the url of the first project of that name, or None
_find_dependency_url(projects, dep_name) ==
    LET named == {id \in DOMAIN projects : projects[id].name = dep_name} IN
    IF named = {} THEN None
    ELSE projects[CHOOSE id \in named : \A o \in named : id <= o].url

\* (variant: the loop ends at the first name that is not found)
RECURSIVE deps_array_until_absent(_, _)
deps_array_until_absent(projects, dependencies) ==
    IF dependencies = <<>> THEN <<>>
    ELSE LET dep_name == Head(dependencies)
             dep_url == _find_dependency_url(projects, dep_name)
         IN  IF dep_url # None
             THEN <<VcsForm(dep_name, dep_url)>>
                  \o deps_array_until_absent(projects, Tail(dependencies))
             ELSE <<>>

\* the loop of init_project_dependencies: one VCS entry per name that is
\* found, a warning for a name that is not
RECURSIVE deps_array(_, _)
deps_array(projects, dependencies) ==
    IF dependencies = <<>> THEN <<>>
    ELSE LET dep_name == Head(dependencies)
             dep_url == _find_dependency_url(projects, dep_name)
             rest == deps_array(projects, Tail(dependencies))
         IN  IF dep_url # None THEN <<VcsForm(dep_name, dep_url)>> \o rest ELSE rest

\* init_project_dependencies, a whole call: every exception is caught and
\* logged, so the call always returns
init_project_dependencies(project_id, dependencies) ==
    /\ setup.pc = "constructed"
    /\ IF project_id \notin DOMAIN _projects
       THEN \* self._projects[project_id]: KeyError
            /\ setup' = [setup EXCEPT !.pc = "assigned", !.project_id = project_id,
                                      !.dependencies = dependencies,
                                      !.outcome = "KeyError"]
            /\ UNCHANGED <<remote, _projects>>
       ELSE /\ _projects' = [_projects EXCEPT ![project_id].dependencies = dependencies]
            /\ \E fetched \in BOOLEAN, committed \in BOOLEAN :
                /\ project_id \notin DOMAIN remote => ~fetched
                /\ project_id \in DOMAIN remote /\ remote[project_id].toml = NoManifest
                       => ~fetched
                /\ ~fetched => ~committed
                /\ LET array == deps_array(_projects', dependencies) IN
                    /\ remote' = IF committed
                                 THEN [remote EXCEPT ![project_id].toml = array]
                                 ELSE remote
                    /\ setup' = [setup EXCEPT
                                    !.pc = "assigned",
                                    !.project_id = project_id,
                                    !.dependencies = dependencies,
                                    !.before = _projects[project_id].dependencies,
                                    !.outcome = IF ~fetched THEN "absent"
                                                ELSE IF committed THEN "committed"
                                                ELSE "commit_failed",
                                    !.written = IF committed THEN array ELSE <<>>]
    /\ UNCHANGED <<_queue, unfinished_tasks, _processing_lock, consumer, runs,
                   calls, clock, payload, response, codec, graph, parsed, naming>>

\* build_module_map on the registry the manager holds
BuildModuleMap ==
    /\ setup.pc \in {"constructed", "assigned"}
    /\ ~setup.mapped
    /\ LET map == build_module_map(_projects) IN
        setup' = [setup EXCEPT !.mapped = TRUE, !.classes = map.classes,
                               !.edges = map.edges]
    /\ UNCHANGED <<remote, _projects, _queue, unfinished_tasks, _processing_lock,
                   consumer, runs, calls, clock, payload, response, codec, graph, parsed, naming>>

\* the manifests of foobar before the setup: one entry for foo, in each of the
\* three encodings
EncodingsOfFoo == {VcsForm(foo, url_foo), MinForm(foo, V1), PinForm(foo, V1)}

\* the groups the script may find: foo without dependencies, foobar depending
\* on foo, and app missing, without manifest or with an empty one
SetupGroups ==
    {(1 :> [name |-> foo, url |-> url_foo, toml |-> <<>>])
     @@ (2 :> [name |-> foobar, url |-> url_foobar, toml |-> <<e>>])
     @@ third :
        e \in EncodingsOfFoo,
        third \in {<<>>} \cup {(3 :> [name |-> app, url |-> url_app, toml |-> t]) :
                                  t \in {NoManifest, <<>>}}}

\* the names a config may list: two projects of the group and a package that
\* is no project of the group
ConfigNames == {foo, foobar, requests}

ConfigLists == UNION {[1..k -> ConfigNames] : k \in 0..MaxLen}

SetupInit ==
    /\ remote \in SetupGroups
    /\ _projects = <<>>
    /\ _queue = <<>>
    /\ unfinished_tasks = 0
    /\ _processing_lock = FALSE
    /\ consumer = [pc |-> "get", package_info |-> NoPackageInfo]
    /\ runs = <<>>
    /\ calls = <<>>
    /\ clock = 0
    /\ payload = NoPayload
    /\ response = [status |-> "", package |-> None, queue_size |-> 0]
    /\ codec = CodecOff
    /\ graph = GraphOff
    /\ parsed = ParsedOff
    /\ naming = NamingOff
    /\ setup = [SetupOff EXCEPT !.pc = "start"]

SetupNext ==
    \/ DependencyManager_init
    \/ \E project_id \in ProjectIds, dependencies \in ConfigLists :
            init_project_dependencies(project_id, dependencies)
    \/ BuildModuleMap

SpecSetup == SetupInit /\ [][SetupNext]_vars

\* C12: the graph of a loaded registry uses bare names: when foobar's manifest
\* holds one entry for foo, in any of the three encodings, and foo's manifest
\* holds none, foo is a root, foobar is a leaf, and the one edge into foobar
\* is foo --> foobar, its source the name of the registry project foo.
C12_GraphUsesBareNames ==
    (/\ setup.pc = "constructed"
     /\ setup.mapped
     /\ setup.tomls[1] = <<>>
     /\ setup.tomls[2] \in {<<e>> : e \in EncodingsOfFoo})
    => /\ setup.classes[foo] = "root"
       /\ setup.classes[foobar] = "leaf"
       /\ SelectSeq(setup.edges, LAMBDA edge : edge[2] = foobar) = << <<foo, foobar>> >>

\* the call of init_project_dependencies has returned for a registry project
Assigned == setup.pc = "assigned" /\ setup.outcome # "KeyError"

\* C13: manifest round trip: once init_project_dependencies has rendered the
\* list D into the manifest and committed it, the registry load's parse of
\* that manifest gives exactly D, the same entries in the same order.
C13_ManifestRoundTrip ==
    (Assigned /\ setup.outcome = "committed") =>
        _parse_dependencies_from_response(remote, remote[setup.project_id].name)
            = setup.dependencies

\* C14: ProjectInfo is never left stale: after init_project_dependencies has
\* returned, on every outcome, the in-memory dependency list of the project
\* equals the dependency list of the manifest in the repository, and the
\* in-memory list has changed only if the rewritten manifest was committed.
C14_ProjectInfoNeverStale ==
    Assigned =>
        /\ _projects[setup.project_id].dependencies
               = _parse_dependencies_from_response(remote, _projects[setup.project_id].name)
        /\ _projects[setup.project_id].dependencies # setup.before
               => setup.outcome = "committed"

\* the names of the registry's projects
RegistryNames == {_projects[id].name : id \in DOMAIN _projects}

\* C15: initial assignment: the list committed to the manifest holds, in input
\* order, exactly one entry `name @ git+<url>@main` for each input name that
\* is the name of a registry project, with that project's url, and nothing for
\* an input name that is absent; an absent name does not end the rewrite.
C15_InitialAssignment ==
    (Assigned /\ setup.outcome = "committed") =>
        LET found == SelectSeq(setup.dependencies, LAMBDA n : n \in RegistryNames)
            written == remote[setup.project_id].toml
        IN  /\ written = setup.written
            /\ Len(written) = Len(found)
            /\ \A i \in DOMAIN found :
                \E id \in DOMAIN _projects :
                    /\ _projects[id].name = found[i]
                    /\ written[i] = found[i] \o GitPlus \o _projects[id].url \o AtMain

\* C15 witness: a committed list whose first name is absent from the registry
\* and whose second name was written
C15_Witness ==
    /\ Assigned
    /\ setup.outcome = "committed"
    /\ setup.dependencies = <<requests, foobar>>
    /\ remote[setup.project_id].toml = <<VcsForm(foobar, url_foobar)>>

\* C16: the registry load tolerates missing manifests: after a load whose
\* listing succeeded the map has exactly one entry per listed repository,
\* a repository whose manifest fetch gave nothing has an empty list and the
\* others have the lists of their manifests; a failed listing is raised to the
\* caller and leaves no map.
C16_LoadToleratesMissingManifests ==
    /\ setup.pc = "constructed" =>
        /\ DOMAIN _projects = DOMAIN remote
        /\ \A id \in DOMAIN remote :
            /\ _projects[id].name = remote[id].name
            /\ _projects[id].dependencies =
                   IF setup.tomls[id] = NoManifest THEN <<>> ELSE setup.tomls[id]
    /\ setup.pc = "raised" => _projects = <<>>

\* C16 witness: a load in which one repository had no manifest and another
\* one's list was read
C16_Witness ==
    /\ setup.pc = "constructed"
    /\ \E id \in DOMAIN remote : setup.tomls[id] = NoManifest
    /\ \E id \in DOMAIN remote : _projects[id].dependencies # <<>>

\* ------------------------------------- the filename parse on drawn filenames
\* the parts a filename is put together from: directories, a stem, three
\* numbers and what follows them
Dirs == {<<>>, <<"p", "/">>, <<"a", "/", "b", "-", "1", "/">>}

Stems == {foo, my_pkg, <<"a", "1">>, <<"_">>, <<"x", "_", "_", "y", "_">>, <<"9">>,
          my_dash_pkg, <<>>}

Numbers == {<<"1">>, <<"2">>, <<"3">>, <<"1", "0">>}

Patches == Numbers \cup {<<>>, <<"x">>}

Suffixes == {<<>>, Whl, TarGz, <<"-", "p", "y", "3">>, <<"a", "1">>, <<".", "4">>, <<"4">>}

ParseInit ==
    /\ SystemInit
    /\ codec = CodecOff
    /\ graph = GraphOff
    /\ setup = SetupOff
    /\ naming = NamingOff
    /\ \E dir \in Dirs, stem \in Stems, major \in Numbers, minor \in Numbers,
          patch \in Patches, suffix \in Suffixes :
            parsed = [ParsedOff EXCEPT
                        !.pc = "input", !.dir = dir, !.stem = stem, !.major = major,
                        !.minor = minor, !.patch = patch, !.suffix = suffix,
                        !.filename = dir \o stem \o <<"-">> \o major \o <<".">> \o minor
                                         \o <<".">> \o patch \o suffix]

\* package_name and version as handle_nexus_webhook computes them
ParseFilename ==
    /\ parsed.pc = "input"
    /\ parsed' = [parsed EXCEPT !.pc = "parsed",
                                !.name = get_name(parsed.filename),
                                !.version = get_version(parsed.filename)]
    /\ UNCHANGED <<system, codec, graph, setup, naming>>

ParseNext == ParseFilename

SpecParse == ParseInit /\ [][ParseNext]_vars

\* the last path segment is <name>-<major>.<minor>.<patch> and a suffix: the
\* name is a non-empty run of letters, digits and underscores, the three
\* numbers are non-empty runs of digits, and the patch number ends where the
\* suffix begins (the suffix does not go on with a digit)
HasReleaseForm ==
    /\ parsed.stem # <<>>
    /\ AllIn(parsed.stem, 1, Len(parsed.stem), WordChars)
    /\ parsed.patch # <<>>
    /\ AllIn(parsed.patch, 1, Len(parsed.patch), Digits)
    /\ parsed.suffix # <<>> => parsed.suffix[1] \notin Digits

\* C17: for a filename whose last path segment is <name>-<major>.<minor>.<patch>
\* followed by any suffix, the name made of letters, digits and underscores,
\* get_name returns the name with every underscore replaced by a hyphen and
\* get_version returns <major>.<minor>.<patch>.
C17_NameAndVersionExtraction ==
    (parsed.pc = "parsed" /\ HasReleaseForm) =>
        /\ Len(parsed.name) = Len(parsed.stem)
        /\ \A i \in DOMAIN parsed.stem :
            parsed.name[i] = IF parsed.stem[i] = "_" THEN "-" ELSE parsed.stem[i]
        /\ parsed.version = parsed.major \o <<".">> \o parsed.minor \o <<".">> \o parsed.patch

\* C17 witness: my_pkg-1.2.3.whl gave my-pkg and 1.2.3
C17_Witness ==
    /\ parsed.pc = "parsed"
    /\ parsed.filename = my_pkg \o <<"-">> \o V1 \o Whl
    /\ parsed.name = my_dash_pkg
    /\ parsed.version = V1

\* ----------------------------------------------------------- the status query
\* (variant: the queue's count of unfinished tasks is reported)
queue_status_unfinished_tasks ==
    [queue_size |-> unfinished_tasks, is_processing |-> _processing_lock]

\* GET /queue-status: qsize() and locked(), read in one event-loop step
queue_status ==
    [queue_size |-> Len(_queue), is_processing |-> _processing_lock]

\* C18: status query: in every reachable state queue_status reports as
\* queue_size the number of events enqueued and not yet dequeued, and as
\* is_processing whether the consumer holds the guard, which it does exactly
\* while it awaits the workflow it handed to the executor; no workflow executes
\* while is_processing is false.
C18_StatusQuery ==
    /\ queue_status.queue_size = Cardinality(Enqueues) - Len(runs)
    /\ queue_status.is_processing = (consumer.pc = "executor")
    /\ Active # {} => queue_status.is_processing

\* C18 witness: a workflow is executing under the guard while two later events
\* wait in the queue
C18_Witness ==
    /\ Active # {}
    /\ queue_status = [queue_size |-> 2, is_processing |-> TRUE]
    /\ Cardinality(Enqueues) = 3

\* ------------------------------------------------ the event and the workflow
\* the keys of package_info that update_all_direct_dependencies subscripts
WorkflowReads == {"name", "version"}

\* the hosting calls of one pass of the loop, in the order of the code
StepOrder ==
    <<"create_branch", "get_pyproject_toml", "commit_changes", "create_tag",
      "create_merge_request">>

\* the hosting calls the run r has issued, in order
HostingCalls(r) ==
    SelectSeq(calls, LAMBDA c : /\ c.timestamp = runs[r].package_info.timestamp
                                /\ c.step \in Range(StepOrder))

\* the run r went past self._get_depended_projects_id(...)
Resolved(r) ==
    \E i \in DOMAIN calls : /\ calls[i].timestamp = runs[r].package_info.timestamp
                            /\ calls[i].step = "_get_depended_projects_id"

\* C19: end-to-end use of the event's fields: the record the webhook builds
\* for an accepted event carries the fields the workflow reads, and the run
\* the consumer starts for it resolves the dependents of its package name
\* (and goes on to name their branches after name and version).
C19_EventFieldsUsedEndToEnd ==
    \A r \in DOMAIN runs :
        /\ WorkflowReads \subseteq DOMAIN runs[r].package_info
        /\ Finished(runs[r]) => Resolved(r)

\* C20: step ordering per dependent: a finished run has issued, for each
\* dependent of its package, the hosting calls create branch, fetch manifest,
\* commit, create tag, open merge request in that order, each call after the
\* first only directly after the call that precedes it in that order, so that
\* nothing is retried and nothing follows a failed call.
C20_StepOrderingPerDependent ==
    \A r \in DOMAIN runs :
        Finished(runs[r]) =>
            LET issued == HostingCalls(r)
                dependents == _get_depended_projects_id(_projects,
                                                        runs[r].package_info.package_name)
            IN  /\ Cardinality({i \in DOMAIN issued : issued[i].step = StepOrder[1]})
                       = Len(dependents)
                /\ \A i \in DOMAIN issued :
                    \/ issued[i].step = StepOrder[1]
                    \/ /\ i > 1
                       /\ \E k \in 1..(Len(StepOrder) - 1) :
                            /\ issued[i - 1].step = StepOrder[k]
                            /\ issued[i].step = StepOrder[k + 1]

\* ------------------------------------------------ the service, scheduled fairly
\* the event loop runs the consumer task whenever it is ready, and the executor
\* thread goes on with a workflow it was handed; every step of the workflow
\* ends (by returning or by raising)
Fairness ==
    /\ WF_vars(process_queue_get)
    /\ WF_vars(process_queue_resume)
    /\ WF_vars(\E r \in DOMAIN runs : update_all_direct_dependencies(r))
    /\ WF_vars(\E r \in DOMAIN runs : _refresh_projects_data(r))

\* the notifications of the fair runs: a wheel whose name and version are
\* read, a wheel whose name is not read, an archive and a deletion
FairPayloads(n) ==
    {p \in Payloads(n) :
        p.asset_name \in {foo \o <<"-">> \o V1 \o Whl,
                          my_dash_pkg \o <<"-">> \o V1 \o Whl,
                          foo \o <<"-">> \o V1 \o TarGz}}

\* the service while the group stays as it was when the registry was loaded
FairNext ==
    \/ \E p \in FairPayloads(clock + 1) : handle_nexus_webhook(p)
    \/ process_queue_get
    \/ process_queue_resume
    \/ \E r \in DOMAIN runs : update_all_direct_dependencies(r)
    \/ \E r \in DOMAIN runs : _refresh_projects_data(r)

SpecFair == Init /\ [][FairNext]_vars /\ Fairness

\* C21: the consumer survives workflow failures: when a run has ended by
\* raising, process_queue leaves the lock, marks the event done and waits for
\* the next event; hence, scheduled fairly, the n-th enqueued event is
\* eventually dequeued and its workflow started, for every n, and the lock is
\* eventually free whenever the queue is empty.
C21_ConsumerSurvivesFailures ==
    /\ \A n \in 1..MaxEvents :
        (Cardinality(Enqueues) >= n) ~> (Len(runs) >= n)
    /\ (\E r \in DOMAIN runs : runs[r].pc = "raised" /\ consumer.pc = "executor")
           ~> (/\ ~_processing_lock
               /\ consumer.pc = "get"
               /\ unfinished_tasks = Len(_queue))
    /\ (_queue = <<>>) ~> ~_processing_lock

\* C21 witness: the first run ended by raising, the lock was left, and the
\* workflow of the second event was started
C21_Witness ==
    /\ Len(runs) = 2
    /\ runs[1].pc = "raised"
    /\ runs[2].pc = "submitted"
    /\ _processing_lock

\* C22: each dependent is processed at most once per event: the list returned
\* by _get_depended_projects_id holds each project id at most once, also when
\* a project's dependency list has several entries matching the package name.
C22_EachDependentAtMostOnce ==
    codec.pc = "resolved" =>
        \A id \in ProjectIds : Count(codec.depended, id) <= 1

\* ------------------------------------------------- the branch and tag names
AutoUpdate == <<"a", "u", "t", "o", "-", "u", "p", "d", "a", "t", "e", "-">>
MrAuto == <<"-", "m", "r", "-", "a", "u", "t", "o">>

\* f"auto-update-{package_info['name']}-{package_info['version']}"
branch_name(package_info) ==
    AutoUpdate \o package_info.name \o <<"-">> \o package_info.version

\* f"v{package_info['version']}-mr-auto"
tag_name(package_info) == <<"v">> \o package_info.version \o MrAuto

\* the events of the drawn pairs: what update_all_direct_dependencies reads of
\* its argument
Events == [name : PackageNames, version : Versions]

NamingInit ==
    /\ SystemInit
    /\ codec = CodecOff
    /\ graph = GraphOff
    /\ setup = SetupOff
    /\ parsed = ParsedOff
    /\ naming \in [pc : {"input"}, deps : DependencyLists, first : Events, second : Events,
                   branches : {<<>>}, tags : {<<>>}]

\* the names two workflow runs, one after the other, ask the hosting client
\* to create in a repository
NameBranchesAndTags ==
    /\ naming.pc = "input"
    /\ naming' = [naming EXCEPT
                    !.pc = "named",
                    !.branches = <<branch_name(naming.first), branch_name(naming.second)>>,
                    !.tags = <<tag_name(naming.first), tag_name(naming.second)>>]
    /\ UNCHANGED <<system, codec, graph, setup, parsed>>

NamingNext == NameBranchesAndTags

SpecNaming == NamingInit /\ [][NamingNext]_vars

\* the repositories both events' workflows go through
SharedDependents ==
    Range(_get_depended_projects_id(RegistryWith(naming.deps), naming.first.name))
    \cap Range(_get_depended_projects_id(RegistryWith(naming.deps), naming.second.name))

\* C23: branch and tag names do not collide across distinct events: for two
\* events with different (package name, version) pairs that share a dependent
\* repository, the branch names the workflow asks for differ and the tag names
\* it asks for differ.
C23_NamesDoNotCollide ==
    (/\ naming.pc = "named"
     /\ naming.first # naming.second
     /\ SharedDependents # {})
    => /\ naming.branches[1] # naming.branches[2]
       /\ naming.tags[1] # naming.tags[2]

=============================================================================
